---- MODULE Spec2Model ----
(***************************************************************************)
(* Model of the event-driven backtest engine (src/backtesting/backtester.py).*)
(*                                                                         *)
(* Time: a Timestamp is the number of minutes since midnight of the first  *)
(* calendar day of the price series; Date(t) and TimeOfDay(t) are pandas'  *)
(* .date() and .time().                                                    *)
(* Money: capital, commission and every capital snapshot are counted in    *)
(* 1/Unit of a currency unit (Unit = 2), so that short_ratio = 0.5 is      *)
(* exact; prices and absolute returns are whole currency units.            *)
(***************************************************************************)
EXTENDS Integers, Sequences, FiniteSets, TLC

\* ---------------------------------------------------------------- bounds
MaxLen == 3          \* longest price series

\* ------------------------------------------------------- program constants
MinutesPerDay == 24 * 60
exchange_close_time == 16 * 60      \* Timestamp("16:00:00")
Unit == 2                           \* money is counted in halves
short_ratio == Unit \div 2          \* 0.5 of the notional, in 1/Unit
None == -1                          \* Python None for a timestamp / a date

\* --------------------------------------------------- construction inputs
HoldingMinutes == 2                 \* close_time_delta handed to __init__
StartCapital == 6 * Unit            \* initial_capital handed to __init__
Commission == 1 * Unit              \* commission handed to __init__

VARIABLES
    data,                     \* price series: Seq of [time, price], strictly increasing times
    initial_capital, commission, close_time_delta,
    capital, trade_log, current_index, current_date,
    position_close_time, trade_returns, trade_returns_percentage,
    pending_trades,
    pc,                       \* position of run(): "next", "check", "close", "settle", "done"
    signal,                   \* what the strategy answered at the current tick
    close_match,              \* per CLOSE: the open entry get_trade_by_time resolved, and the path
    error_log,                \* timestamps at which run() logged a strategy-check error
    runs,                     \* how many times run() has been called
    call,                     \* the last direct call of a method and its arguments
    metrics,                  \* what calculate_metrics returned, once it has been called
    strategy                  \* a MomentumStrategy: its arguments, then the constructed object

vars == <<data, initial_capital, commission, close_time_delta, capital,
          trade_log, current_index, current_date, position_close_time,
          trade_returns, trade_returns_percentage, pending_trades, pc,
          signal, close_match, error_log, runs, call, metrics, strategy>>

\* ------------------------------------------------------------ time helpers
Date(t) == t \div MinutesPerDay
TimeOfDay(t) == t % MinutesPerDay

\* ------------------------------------------------------------ list helpers
Elems(seq) == {seq[i] : i \in DOMAIN seq}

\* a remove that is forgotten
RemoveFirst_Keep(seq, x) == seq

\* list.remove(x): drops the first occurrence of x
RemoveFirst(seq, x) ==
    IF x \notin Elems(seq) THEN seq
    ELSE LET i == CHOOSE k \in DOMAIN seq : seq[k] = x /\ \A j \in 1..(k-1) : seq[j] # x
         IN  SubSeq(seq, 1, i-1) \o SubSeq(seq, i+1, Len(seq))

\* ------------------------------------------------------------ data lookups
\* `t in self.data.index`
HasPrice(t) == \E i \in DOMAIN data : data[i].time = t
\* self.data.index.get_loc(t)
IndexOf(t) == CHOOSE i \in DOMAIN data : data[i].time = t
\* float(self.data.loc[t].iloc[0])
PriceAt(t) == data[IndexOf(t)].price

\* the engine's mutable fields, as one record (Python's self)
Self == [capital |-> capital, trade_log |-> trade_log,
         position_close_time |-> position_close_time,
         trade_returns |-> trade_returns,
         trade_returns_percentage |-> trade_returns_percentage,
         pending_trades |-> pending_trades, close_match |-> close_match]

\* ---------------------------------------------------------- open_position
\* cost of opening that leaves the commission out
OpenCost_NoCommission(action, price, quantity) ==
    IF action = "BUY" THEN price * quantity * Unit
    ELSE price * quantity * short_ratio

\* cost of opening `action` at `price`, in 1/Unit
OpenCost(action, price, quantity) ==
    IF action = "BUY" THEN price * quantity * Unit + commission
    ELSE price * quantity * short_ratio + commission

\* open_position with the sufficiency test written `>= 0`
open_position_AllowZero(s, t, action, quantity) ==
    IF ~HasPrice(t) THEN [ok |-> FALSE, s |-> s]
    ELSE LET price == PriceAt(t)
             cost  == OpenCost(action, price, quantity)
         IN  IF s.capital - cost >= 0
             THEN [ok |-> TRUE,
                   s  |-> [s EXCEPT !.capital = @ - cost,
                                    !.trade_log = Append(@, [time |-> t, action |-> action,
                                                             price |-> price,
                                                             capital |-> s.capital - cost])]]
             ELSE [ok |-> FALSE, s |-> s]

\* returns [ok, s]: ok is the truthiness of the return value
open_position(s, t, action, quantity) ==
    IF ~HasPrice(t) THEN [ok |-> FALSE, s |-> s]        \* KeyError: logged, returns None
    ELSE LET price == PriceAt(t)
             cost  == OpenCost(action, price, quantity)
         IN  IF s.capital - cost > 0
             THEN [ok |-> TRUE,
                   s  |-> [s EXCEPT !.capital = @ - cost,
                                    !.trade_log = Append(@, [time |-> t, action |-> action,
                                                             price |-> price,
                                                             capital |-> s.capital - cost])]]
             ELSE [ok |-> FALSE, s |-> s]

\* ------------------------------------------- update_position_close_time
\* the test of line 146 written with `>`
NearClose_Strict(t) == TimeOfDay(t) > TimeOfDay(exchange_close_time - close_time_delta)

\* the "too close to session close" test of line 146
NearClose(t) == TimeOfDay(t) >= TimeOfDay(exchange_close_time - close_time_delta)

update_position_close_time(s, t, action) ==
    IF NearClose(t)
    THEN [s EXCEPT !.pending_trades = Append(@, [time |-> t, action |-> action])]
    ELSE [s EXCEPT !.position_close_time = Append(@, t + close_time_delta)]

\* --------------------------------------------------------- check_strategy
\* check_strategy that goes on to the SELL branch after a BUY
check_strategy_OpenBoth(s, t, sig) ==
    LET s1 == IF sig \in {"buy", "both"}
              THEN LET r == open_position(s, t, "BUY", 1)
                   IN  IF r.ok THEN update_position_close_time(r.s, t, "BUY") ELSE r.s
              ELSE s
    IN  IF sig \in {"sell", "both"}
        THEN LET r == open_position(s1, t, "SELL", 1)
             IN  IF r.ok THEN update_position_close_time(r.s, t, "SELL") ELSE r.s
        ELSE s1

\* check_strategy that buys unless told to sell
check_strategy_DefaultBuy(s, t, sig) ==
    IF sig \in {"buy", "both", "none"}
    THEN LET r == open_position(s, t, "BUY", 1)
         IN  IF r.ok THEN update_position_close_time(r.s, t, "BUY") ELSE r.s
    ELSE LET r == open_position(s, t, "SELL", 1)
         IN  IF r.ok THEN update_position_close_time(r.s, t, "SELL") ELSE r.s

\* check_strategy that tries the SELL branch when the BUY could not be opened
check_strategy_FallThrough(s, t, sig) ==
    LET b == open_position(s, t, "BUY", 1)
        a == open_position(s, t, "SELL", 1)
    IN  IF sig \in {"buy", "both"} /\ b.ok
        THEN update_position_close_time(b.s, t, "BUY")
        ELSE IF sig \in {"sell", "both"} /\ a.ok
        THEN update_position_close_time(a.s, t, "SELL")
        ELSE s

\* sig: "buy" (should_buy true), "both" (both true), "sell" (only should_sell), "none"
check_strategy(s, t, sig) ==
    IF sig \in {"buy", "both"}
    THEN LET r == open_position(s, t, "BUY", 1)
         IN  IF r.ok THEN update_position_close_time(r.s, t, "BUY") ELSE r.s
    ELSE IF sig = "sell"
    THEN LET r == open_position(s, t, "SELL", 1)
         IN  IF r.ok THEN update_position_close_time(r.s, t, "SELL") ELSE r.s
    ELSE s

\* ------------------------------------------------------ get_trade_by_time
\* get_trade_by_time that takes the first non-CLOSE trade whatever its time
get_trade_by_time_AnyTime(log, time) ==
    LET hits == {i \in DOMAIN log : log[i].action # "CLOSE"}
    IN  IF hits = {} THEN 0
        ELSE CHOOSE i \in hits : \A j \in hits : i <= j

\* index in the log of the first non-CLOSE trade at `time`; 0 stands for the {} result
get_trade_by_time(log, time) ==
    LET hits == {i \in DOMAIN log : log[i].time = time /\ log[i].action # "CLOSE"}
    IN  IF hits = {} THEN 0
        ELSE CHOOSE i \in hits : \A j \in hits : i <= j

\* ------------------------------------------------------------ close_trade
\* close_trade that writes the CLOSE over the last entry of the log
close_trade_Overwrite(s, action, close_time, close_price, open_trade_price, quantity) ==
    LET credit == IF action = "BUY" THEN close_price * quantity * Unit - commission
                  ELSE close_price * quantity * short_ratio - commission
        ret    == IF action = "BUY" THEN close_price - open_trade_price
                  ELSE open_trade_price - close_price
        s1     == [s EXCEPT !.capital = @ + credit,
                            !.trade_log = [@ EXCEPT ![Len(@)] =
                                               [time |-> close_time, action |-> "CLOSE",
                                                price |-> close_price,
                                                capital |-> s.capital + credit]],
                            !.trade_returns = Append(@, ret)]
    IN  IF action \notin {"BUY", "SELL"} THEN s
        ELSE IF open_trade_price = 0 THEN s1
        ELSE [s1 EXCEPT !.trade_returns_percentage =
                            Append(@, [num |-> ret * 100, den |-> open_trade_price])]

\* close_trade that logs the capital it found, not the capital it leaves
close_trade_StaleSnapshot(s, action, close_time, close_price, open_trade_price, quantity) ==
    LET credit == IF action = "BUY" THEN close_price * quantity * Unit - commission
                  ELSE close_price * quantity * short_ratio - commission
        ret    == IF action = "BUY" THEN close_price - open_trade_price
                  ELSE open_trade_price - close_price
        s1     == [s EXCEPT !.capital = @ + credit,
                            !.trade_log = Append(@, [time |-> close_time, action |-> "CLOSE",
                                                     price |-> close_price,
                                                     capital |-> s.capital]),
                            !.trade_returns = Append(@, ret)]
    IN  IF action \notin {"BUY", "SELL"} THEN s
        ELSE IF open_trade_price = 0 THEN s1
        ELSE [s1 EXCEPT !.trade_returns_percentage =
                            Append(@, [num |-> ret * 100, den |-> open_trade_price])]

\* close_trade that settles a SHORT as a repurchase: the margin comes back
\* together with the fall of the price
close_trade_Repurchase(s, action, close_time, close_price, open_trade_price, quantity) ==
    LET credit == IF action = "BUY" THEN close_price * quantity * Unit - commission
                  ELSE (2 * open_trade_price - close_price) * quantity * short_ratio
                           - commission
        ret    == IF action = "BUY" THEN close_price - open_trade_price
                  ELSE open_trade_price - close_price
        s1     == [s EXCEPT !.capital = @ + credit,
                            !.trade_log = Append(@, [time |-> close_time, action |-> "CLOSE",
                                                     price |-> close_price,
                                                     capital |-> s.capital + credit]),
                            !.trade_returns = Append(@, ret)]
    IN  IF action \notin {"BUY", "SELL"} THEN s
        ELSE IF open_trade_price = 0 THEN s1
        ELSE [s1 EXCEPT !.trade_returns_percentage =
                            Append(@, [num |-> ret * 100, den |-> open_trade_price])]

close_trade(s, action, close_time, close_price, open_trade_price, quantity) ==
    LET credit == IF action = "BUY" THEN close_price * quantity * Unit - commission
                  ELSE close_price * quantity * short_ratio - commission
        ret    == IF action = "BUY" THEN close_price - open_trade_price
                  ELSE open_trade_price - close_price
        s1     == [s EXCEPT !.capital = @ + credit,
                            !.trade_log = Append(@, [time |-> close_time, action |-> "CLOSE",
                                                     price |-> close_price,
                                                     capital |-> s.capital + credit]),
                            !.trade_returns = Append(@, ret)]
    IN  IF action \notin {"BUY", "SELL"} THEN s          \* ValueError: logged
        ELSE IF open_trade_price = 0 THEN s1             \* ZeroDivisionError: logged
        ELSE [s1 EXCEPT !.trade_returns_percentage =
                            Append(@, [num |-> ret * 100, den |-> open_trade_price])]

\* close the trade at log index idx (0: none found) at close_time, by `path`
CloseResolved(s, idx, close_time, quantity, path) ==
    IF ~HasPrice(close_time) THEN s                      \* ValueError: logged
    ELSE IF idx = 0 THEN s                               \* KeyError on {}['action']: logged
    ELSE LET trade == s.trade_log[idx]
             s1 == close_trade(s, trade.action, close_time, PriceAt(close_time),
                               trade.price, quantity)
         IN  IF Len(s1.trade_log) = Len(s.trade_log) THEN s1
             ELSE [s1 EXCEPT !.close_match =
                       Append(@, [open_idx |-> idx, close_idx |-> Len(s1.trade_log),
                                  path |-> path])]

\* --------------------------------------------------------- close_position
\* open_time computed without subtracting the holding duration
ScheduledOpenTime_NoDelta(close_time) == close_time

\* open_time = close_time - pd.Timedelta(minutes=self.close_time_delta)
ScheduledOpenTime(close_time) == close_time - close_time_delta

\* close_position that books the close at the timestamp of the open
close_position_Backdated(s, close_time, quantity) ==
    CloseResolved(s, get_trade_by_time(s.trade_log, ScheduledOpenTime(close_time)),
                  ScheduledOpenTime(close_time), quantity, "scheduled")

close_position(s, close_time, quantity) ==
    CloseResolved(s, get_trade_by_time(s.trade_log, ScheduledOpenTime(close_time)),
                  close_time, quantity, "scheduled")

\* ------------------------------------------------- close_pending_position
close_pending_position(s, close_time, open_time, quantity) ==
    CloseResolved(s, get_trade_by_time(s.trade_log, open_time),
                  close_time, quantity, "pending")

\* ------------------------------------------------ settle_pending_positions
\* the loop over the copy pending_trades[:]
RECURSIVE SettleLoop(_, _, _)
SettleLoop(s, copy, t) ==
    IF copy = <<>> THEN s
    ELSE LET trade == Head(copy)
             s1 == close_pending_position(s, t, trade.time, 1)
             s2 == [s1 EXCEPT !.pending_trades = RemoveFirst(@, trade)]
         IN  SettleLoop(s2, Tail(copy), t)

settle_pending_positions(s, t) == SettleLoop(s, s.pending_trades, t)

\* the guard of line 87
SettleDue(s, date) ==
    /\ Len(s.pending_trades) > 0
    /\ Date(s.pending_trades[1].time) = date - 1

\* ------------------------------------------------------------------- next
\* next() that steps over one timestamp when it can
next_result_Skip(index) ==
    IF index = None
    THEN IF Len(data) = 0 THEN [ok |-> FALSE, index |-> index]
         ELSE [ok |-> TRUE, index |-> data[1].time]
    ELSE IF HasPrice(index) /\ IndexOf(index) < Len(data)
    THEN [ok |-> TRUE,
          index |-> data[IF IndexOf(index) + 2 <= Len(data) THEN IndexOf(index) + 2
                         ELSE IndexOf(index) + 1].time]
    ELSE [ok |-> FALSE, index |-> index]

\* next() that forgets its position when the series is exhausted
next_result_ResetAtEnd(index) ==
    IF index = None
    THEN IF Len(data) = 0 THEN [ok |-> FALSE, index |-> index]
         ELSE [ok |-> TRUE, index |-> data[1].time]
    ELSE IF HasPrice(index) /\ IndexOf(index) < Len(data)
    THEN [ok |-> TRUE, index |-> data[IndexOf(index) + 1].time]
    ELSE [ok |-> FALSE, index |-> None]

\* [ok, index]: the return value and the new current_index
next_result(index) ==
    IF index = None
    THEN IF Len(data) = 0 THEN [ok |-> FALSE, index |-> index]      \* IndexError: logged
         ELSE [ok |-> TRUE, index |-> data[1].time]
    ELSE IF HasPrice(index) /\ IndexOf(index) < Len(data)
    THEN [ok |-> TRUE, index |-> data[IndexOf(index) + 1].time]
    ELSE [ok |-> FALSE, index |-> index]

\* ----------------------------------------------------------------- inputs
\* calendar days that carry data: a session, a two-day gap, two sessions in a row
Days == {0, 2, 3}
\* minutes of the day that carry data: the last ones from which a close can still
\* be scheduled, up to the first one that is too close to the session close
SlotTimes == (exchange_close_time - 2 * HoldingMinutes) .. (exchange_close_time - HoldingMinutes)
Timestamps == {d * MinutesPerDay + m : d \in Days, m \in SlotTimes}
Prices == {1, 3}
Signals == {"none", "buy", "sell", "both", "raise"}

RECURSIVE SortedSeq(_)
SortedSeq(S) ==
    IF S = {} THEN <<>>
    ELSE LET m == CHOOSE x \in S : \A y \in S : x <= y
         IN  <<m>> \o SortedSeq(S \ {m})

\* index sets: at most MaxLen timestamps
IndexSets == {S \in SUBSET Timestamps : Cardinality(S) <= MaxLen}

Series == UNION { LET idx == SortedSeq(S)
                  IN  {[i \in 1..Len(idx) |-> [time |-> idx[i], price |-> p[i]]] :
                          p \in [1..Len(idx) -> Prices]}
                : S \in IndexSets }

\* ------------------------------------------------------------------- Init
\* the engine's strategy is not a MomentumStrategy under study
NoStrategy == [state |-> "none"]

\* calculate_metrics has not been called
NotCalculated == [returned |-> "nothing"]

\* no direct call of a close method has been made
NoCall == [op |-> "none", close_time |-> None, open_time |-> None]

\* the fields Backtester.__init__ sets whatever its arguments are
Fresh ==
    /\ capital = initial_capital
    /\ trade_log = <<>>
    /\ current_index = None
    /\ current_date = None
    /\ position_close_time = <<>>
    /\ trade_returns = <<>>
    /\ trade_returns_percentage = <<>>
    /\ pending_trades = <<>>
    /\ pc = "next"
    /\ signal = "none"
    /\ close_match = <<>>
    /\ error_log = {}
    /\ runs = 1
    /\ call = NoCall
    /\ metrics = NotCalculated
    /\ strategy = NoStrategy

\* Backtester.__init__
Init ==
    /\ data \in Series
    /\ initial_capital = StartCapital
    /\ commission = Commission
    /\ close_time_delta = HoldingMinutes
    /\ Fresh

inputs == <<data, initial_capital, commission, close_time_delta>>
driver == <<runs, call, metrics, strategy>>
ledger == <<capital, trade_log, position_close_time, trade_returns,
            trade_returns_percentage, pending_trades, close_match>>

Assign(s) ==
    /\ capital' = s.capital
    /\ trade_log' = s.trade_log
    /\ position_close_time' = s.position_close_time
    /\ trade_returns' = s.trade_returns
    /\ trade_returns_percentage' = s.trade_returns_percentage
    /\ pending_trades' = s.pending_trades
    /\ close_match' = s.close_match

\* ---------------------------------------------------------------- actions
\* an except block that leaves the loop instead of continuing it
AfterStrategyError_Abort == "done"

\* where run() goes after logging a strategy-check error: `continue`
AfterStrategyError == "next"

\* `while self.next():`
Next_ ==
    /\ pc = "next"
    /\ LET r == next_result(current_index)
       IN  /\ current_index' = r.index
           /\ current_date' = IF r.ok THEN Date(r.index) ELSE current_date
           /\ pc' = IF r.ok THEN "check" ELSE "done"
    /\ UNCHANGED <<inputs, driver, ledger, signal, error_log>>

\* a loop body that closes the position due at this tick before it asks the
\* strategy
CheckStrategy_AfterClose ==
    /\ pc = "check"
    /\ \E sig \in Signals :
          /\ signal' = sig
          /\ IF sig = "raise"
             THEN /\ error_log' = error_log \cup {current_index}
                  /\ pc' = AfterStrategyError
                  /\ UNCHANGED ledger
             ELSE /\ LET s0 == IF current_index \in Elems(position_close_time)
                               THEN [close_position(Self, current_index, 1)
                                        EXCEPT !.position_close_time =
                                                   RemoveFirst(@, current_index)]
                               ELSE Self
                     IN  Assign(check_strategy(s0, current_index, sig))
                  /\ pc' = "close"
                  /\ UNCHANGED error_log
    /\ UNCHANGED <<inputs, driver, current_index, current_date>>

\* try: self.check_strategy()  except: log, continue
CheckStrategy ==
    /\ pc = "check"
    /\ \E sig \in Signals :
          /\ signal' = sig
          /\ IF sig = "raise"
             THEN /\ error_log' = error_log \cup {current_index}
                  /\ pc' = AfterStrategyError
                  /\ UNCHANGED ledger
             ELSE /\ Assign(check_strategy(Self, current_index, sig))
                  /\ pc' = "close"
                  /\ UNCHANGED error_log
    /\ UNCHANGED <<inputs, driver, current_index, current_date>>

\* if self.current_index in self.position_close_time: close, remove
CloseDue ==
    /\ pc = "close"
    /\ IF current_index \in Elems(position_close_time)
       THEN LET s1 == close_position(Self, current_index, 1)
            IN  Assign([s1 EXCEPT !.position_close_time = RemoveFirst(@, current_index)])
       ELSE UNCHANGED ledger
    /\ pc' = "settle"
    /\ UNCHANGED <<inputs, driver, current_index, current_date, signal, error_log>>

\* if pending_trades and pending_trades[0] is from yesterday: settle
Settle ==
    /\ pc = "settle"
    /\ IF SettleDue(Self, current_date)
       THEN Assign(settle_pending_positions(Self, current_index))
       ELSE UNCHANGED ledger
    /\ pc' = "next"
    /\ UNCHANGED <<inputs, driver, current_index, current_date, signal, error_log>>

Next == Next_ \/ CheckStrategy \/ CloseDue \/ Settle

Spec == Init /\ [][Next]_vars

\* -------------------------------------------------- run() called once more
MaxRuns == 2

\* run() is entered again on the same engine: nothing is reset, the loop
\* condition `while self.next()` is evaluated from the current clock
Rerun ==
    /\ pc = "done"
    /\ runs < MaxRuns
    /\ runs' = runs + 1
    /\ pc' = "next"
    /\ UNCHANGED <<inputs, call, metrics, strategy, ledger, current_index, current_date, signal, error_log>>

RerunNext == Next_ \/ CheckStrategy \/ CloseDue \/ Settle \/ Rerun

RerunSpec == Init /\ [][RerunNext]_vars

\* ------------------------------------------------------- shared vocabulary
IsOpenEntry(e) == e.action # "CLOSE"
OpenIdx == {i \in DOMAIN trade_log : IsOpenEntry(trade_log[i])}
CloseIdx == {i \in DOMAIN trade_log : ~IsOpenEntry(trade_log[i])}
NumOpen == Cardinality(OpenIdx)
NumClose == Cardinality(CloseIdx)
\* a tick of run() has just ended (normally or through `continue`)
TickEnd == pc = "next" /\ current_index # None
\* the open entry at log index i is recorded as closed
IsClosed(i) == \E k \in DOMAIN close_match : close_match[k].open_idx = i
\* too close to the session close to be scheduled, spelled out
TooLate(t) == t % (24 * 60) >= 16 * 60 - close_time_delta

\* ---------------------------------------------------------------------- C1
\* C1 as stated: when run() has completed, the number of CLOSE entries equals
\* the number of open entries minus the number of trades still pending.
C1_ClosesEqualOpensMinusPending ==
    pc = "done" => NumClose = NumOpen - Len(pending_trades)

\* C1 amended: when run() has completed, the number of CLOSE entries equals the
\* number of open entries minus the trades still pending minus the scheduled
\* closes still outstanding in position_close_time.
C1_ClosesEqualOpensMinusOutstanding ==
    pc = "done" =>
        NumClose = NumOpen - Len(pending_trades) - Len(position_close_time)

\* a completed run that closed a trade and left one pending and one scheduled
C1_Witness ==
    /\ pc = "done"
    /\ NumClose > 0
    /\ Len(pending_trades) > 0
    /\ Len(position_close_time) > 0

\* ---------------------------------------------------------------------- C2
\* C2: at the end of every tick whose timestamp is an entry of
\* position_close_time, whatever the strategy did at that tick, the entry has
\* been removed and the position it was scheduled for has been closed.
C2_ScheduledCloseActedOnEveryTick ==
    TickEnd =>
        /\ current_index \notin Elems(position_close_time)
        /\ \A i \in OpenIdx :
              (~TooLate(trade_log[i].time)
                 /\ trade_log[i].time + close_time_delta = current_index)
              => IsClosed(i)

\* ---------------------------------------------------------------------- C3
\* C3: at the end of every tick, no trade opened on the calendar day before the
\* current one is left in pending_trades, at whatever position of the list.
\* Stated for the ticks whose strategy evaluation returned, the ones that reach
\* the settlement step; a tick cut short by a strategy error leaves them too.
C3_YesterdaysPendingAllSettled ==
    (TickEnd /\ signal # "raise") =>
        \A j \in DOMAIN pending_trades :
            Date(pending_trades[j].time) # current_date - 1

\* ---------------------------------------------------------------------- C4
\* C4: every CLOSE made by the pending-settlement path closes a trade opened
\* exactly one calendar day before the CLOSE.
C4_SettledExactlyNextDay ==
    \A k \in DOMAIN close_match :
        close_match[k].path = "pending" =>
            Date(trade_log[close_match[k].open_idx].time)
                = Date(trade_log[close_match[k].close_idx].time) - 1

\* ---------------------------------------------------------------------- C5
\* what the strategy's answer makes check_strategy try to open
Attempted == IF signal' \in {"buy", "both"} THEN "BUY"
             ELSE IF signal' = "sell" THEN "SELL" ELSE "NONE"
\* price * quantity (* short_ratio) + commission for one unit, in halves
DebitFor(side, price) == IF side = "BUY" THEN 2 * price + commission
                         ELSE price + commission

\* C5: open_position never leaves capital <= 0 after its debit, and when the
\* pre-check fails (capital - cost <= 0, LONG or SHORT) capital, the trade log,
\* position_close_time and pending_trades are all unchanged.
C5_OpenNeverOverdraws ==
    [][ pc = "check" =>
          /\ capital' # capital => capital' > 0
          /\ (Attempted # "NONE"
                /\ capital - DebitFor(Attempted, PriceAt(current_index)) <= 0)
             => UNCHANGED <<capital, trade_log, position_close_time, pending_trades>>
          /\ (Attempted # "NONE"
                /\ capital - DebitFor(Attempted, PriceAt(current_index)) > 0)
             => capital' = capital - DebitFor(Attempted, PriceAt(current_index))
      ]_vars

\* a BUY was just refused because it would leave capital at exactly zero
C5_Witness ==
    /\ pc = "close"
    /\ signal = "buy"
    /\ capital - (2 * PriceAt(current_index) + commission) = 0
    /\ trade_log # <<>>
    /\ \A i \in DOMAIN trade_log : trade_log[i].time # current_index

\* ---------------------------------------------------------------------- C6
IsPending(i) == \E j \in DOMAIN pending_trades :
                    pending_trades[j].time = trade_log[i].time
IsScheduled(i) == trade_log[i].time + close_time_delta \in Elems(position_close_time)

\* C6: every open trade is closed at most once: no open trade is both
\* scheduled and pending, no two CLOSE entries close the same open trade, and a
\* closed trade is no longer scheduled or pending (nothing can close it again).
C6_ClosedAtMostOnce ==
    /\ \A i \in OpenIdx : ~(IsPending(i) /\ IsScheduled(i))
    /\ \A k1, k2 \in DOMAIN close_match :
          close_match[k1].open_idx = close_match[k2].open_idx => k1 = k2
    /\ \A i \in OpenIdx : IsClosed(i) => ~IsPending(i) /\ ~IsScheduled(i)

\* a trade was closed by each path and a later tick has been processed since
C6_Witness ==
    /\ TickEnd
    /\ \E k \in DOMAIN close_match :
          /\ close_match[k].path = "scheduled"
          /\ trade_log[close_match[k].close_idx].time < current_index
    /\ \E k \in DOMAIN close_match : close_match[k].path = "pending"

\* ---------------------------------------------------------------------- C7
\* C7: the trade log never holds two non-CLOSE entries with the same
\* timestamp, and each CLOSE entry corresponds to exactly one open entry, which
\* precedes it in the log and is the only open entry at the looked-up timestamp.
C7_CloseHasUniquePriorOpen ==
    /\ \A i, j \in OpenIdx : trade_log[i].time = trade_log[j].time => i = j
    /\ \A c \in CloseIdx :
          Cardinality({k \in DOMAIN close_match : close_match[k].close_idx = c}) = 1
    /\ \A k \in DOMAIN close_match :
          LET o == close_match[k].open_idx
              c == close_match[k].close_idx
          IN  /\ o \in OpenIdx
              /\ c \in CloseIdx
              /\ o < c
              /\ Cardinality({i \in OpenIdx :
                                 trade_log[i].time = trade_log[o].time}) = 1

\* the strategy signalled both sides and the log holds a CLOSE next to an open
\* entry made at the CLOSE's own timestamp
C7_Witness ==
    /\ signal = "both"
    /\ \E c \in CloseIdx : \E i \in OpenIdx :
          /\ trade_log[i].time = trade_log[c].time
          /\ \E k \in DOMAIN close_match :
                close_match[k].close_idx = c /\ close_match[k].open_idx # i

\* ---------------------------------------------------------------------- C8
\* C8: every CLOSE made by the scheduled-close path matches an open entry
\* whose timestamp is exactly the CLOSE's timestamp minus close_time_delta.
C8_ScheduledCloseMatchesOpenAtDelta ==
    \A k \in DOMAIN close_match :
        close_match[k].path = "scheduled" =>
            /\ IsOpenEntry(trade_log[close_match[k].open_idx])
            /\ trade_log[close_match[k].open_idx].time
                 = trade_log[close_match[k].close_idx].time - close_time_delta

\* a scheduled close was made while another position had been opened in between
C8_Witness ==
    \E k \in DOMAIN close_match :
        /\ close_match[k].path = "scheduled"
        /\ close_match[k].close_idx > close_match[k].open_idx + 1
        /\ \E i \in OpenIdx : trade_log[i].time = trade_log[close_match[k].close_idx].time

\* ---------------------------------------------------------------------- C9
NoDuplicates(seq) == \A i, j \in DOMAIN seq : seq[i] = seq[j] => i = j

\* C9: each successful open creates exactly one follow-up record: a pending
\* trade when the time of day is at or after 16:00 minus the holding duration,
\* otherwise one scheduled close at open timestamp + holding duration; a
\* refused or absent open creates none, and no close time is scheduled twice.
C9_OneFollowUpPerOpen ==
    [][ pc = "check" =>
          IF Len(trade_log') = Len(trade_log) + 1
          THEN LET e == trade_log'[Len(trade_log')]
               IN  /\ e.time = current_index
                   /\ IF TooLate(current_index)
                      THEN /\ pending_trades' = Append(pending_trades,
                                                   [time |-> e.time, action |-> e.action])
                           /\ position_close_time' = position_close_time
                      ELSE /\ position_close_time' =
                                  Append(position_close_time, e.time + close_time_delta)
                           /\ pending_trades' = pending_trades
                   /\ NoDuplicates(position_close_time')
          ELSE /\ trade_log' = trade_log
               /\ pending_trades' = pending_trades
               /\ position_close_time' = position_close_time
      ]_vars

\* a position opened exactly at 16:00 minus the holding duration went to the
\* pending list while an earlier position is scheduled
C9_Witness ==
    /\ pc = "close"
    /\ current_index % (24 * 60) = 16 * 60 - close_time_delta
    /\ pending_trades # <<>>
    /\ pending_trades[Len(pending_trades)].time = current_index
    /\ position_close_time # <<>>

\* --------------------------------------------------------------------- C10
\* the clock stands on the last timestamp of the series (or never left None
\* on an empty series)
ClockExhausted ==
    IF data = <<>> THEN current_index = None
    ELSE current_index = data[Len(data)].time

\* ticks still ahead of the clock, and the steps left in the current tick
TicksAhead == IF current_index = None THEN Len(data)
              ELSE Len(data) - IndexOf(current_index)
StepsLeft == CASE pc = "check" -> 4 [] pc = "close" -> 3 [] pc = "settle" -> 2
               [] pc = "next" -> 1 [] OTHER -> 0
Remaining == 4 * TicksAhead + StepsLeft

\* C10: run() always terminates after one tick per timestamp: every step of
\* run() uses up the finite budget of 4 steps per timestamp still ahead and
\* leaves run() at a position of its loop (each of which has a step to take)
\* or done; it is done only with the clock on the last timestamp; and a
\* strategy error ends the tick, never the run.
C10_RunTerminates ==
    [][ /\ Remaining' < Remaining
        /\ Remaining' >= 0
        /\ pc' \in {"check", "close", "settle", "next", "done"}
        /\ pc' = "done" => ClockExhausted'
        /\ (pc = "check" /\ signal' = "raise") => pc' = "next"
      ]_vars

\* a completed run in which the strategy raised and a later tick still traded
C10_Witness ==
    /\ pc = "done"
    /\ ClockExhausted
    /\ \E t \in error_log : \E i \in OpenIdx : trade_log[i].time > t

\* ------------------------------ methods called directly, as the tests do
MaxLog == 3

\* one trading day of rows, prices that may be 0
ApiTimes == {m : m \in SlotTimes}
ApiPrices == {0, 1, 3}

ApiSeries == UNION { LET idx == SortedSeq(S)
                     IN  {[i \in 1..Len(idx) |-> [time |-> idx[i], price |-> p[i]]] :
                             p \in [1..Len(idx) -> ApiPrices]}
                   : S \in {T \in SUBSET ApiTimes : Cardinality(T) <= MaxLen} }

ApiInit ==
    /\ data \in ApiSeries
    /\ initial_capital = StartCapital
    /\ commission = Commission
    /\ close_time_delta = HoldingMinutes
    /\ Fresh

\* self.current_index = t; self.open_position(action, 1)
ApiOpen ==
    /\ Len(trade_log) < MaxLog
    /\ \E t \in ApiTimes, action \in {"BUY", "SELL"} :
          /\ current_index' = t
          /\ call' = [op |-> "open_position", close_time |-> None, open_time |-> t]
          /\ Assign(open_position(Self, t, action, 1).s)
    /\ UNCHANGED <<inputs, runs, metrics, strategy, current_date, pc, signal, error_log>>

\* self.close_position(close_time, 1)
ApiClose ==
    /\ Len(trade_log) < MaxLog
    /\ \E close_time \in ApiTimes :
          /\ call' = [op |-> "close_position", close_time |-> close_time, open_time |-> None]
          /\ Assign(close_position(Self, close_time, 1))
    /\ UNCHANGED <<inputs, runs, metrics, strategy, current_index, current_date, pc, signal, error_log>>

\* self.close_pending_position(close_time, open_time, 1)
ApiClosePending ==
    /\ Len(trade_log) < MaxLog
    /\ \E close_time \in ApiTimes, open_time \in ApiTimes :
          /\ call' = [op |-> "close_pending_position", close_time |-> close_time,
                                                       open_time |-> open_time]
          /\ Assign(close_pending_position(Self, close_time, open_time, 1))
    /\ UNCHANGED <<inputs, runs, metrics, strategy, current_index, current_date, pc, signal, error_log>>

ApiNext == ApiOpen \/ ApiClose \/ ApiClosePending

ApiSpec == ApiInit /\ [][ApiNext]_vars

\* ------------------------------------------- the unit tests' engine (setUp)
\* "Close" of the test frame, one row per minute from 2023-01-01 00:00
ScenarioPrices == <<100, 102, 101, 103, 105, 107, 108, 110, 109, 108>>

ScenarioData == [i \in 1..Len(ScenarioPrices) |-> [time |-> i - 1, price |-> ScenarioPrices[i]]]

\* Backtester(strategy, df, 10000, 2.0, 3)
ScenarioInit ==
    /\ data = ScenarioData
    /\ initial_capital = 10000 * Unit
    /\ commission = 2 * Unit
    /\ close_time_delta = 3
    /\ Fresh

\* what a strategy may answer when every signal comes strictly after the close
\* tick of the previous position and every close time is a row of the frame
SpacedSignals ==
    IF position_close_time = <<>> /\ HasPrice(current_index + close_time_delta)
    THEN {"none", "buy", "sell", "both"}
    ELSE {"none"}

ScenarioCheck == CheckStrategy /\ signal' \in SpacedSignals

ScenarioNext == Next_ \/ ScenarioCheck \/ CloseDue \/ Settle

ScenarioSpec == ScenarioInit /\ [][ScenarioNext]_vars

\* ------------------------------------------------------ PerformanceMetrics
\* Percentage returns are fractions num / PctDen; risk_free_rate 0.02 in that unit.
PctDen == 100
risk_free_rate == 2

\* A numpy/Python float result: kind "finite" with the exact value described by
\* num and den (each use says how), or one of "nan", "inf", "-inf"; "huge" and
\* "-huge" stand for a finite quotient by a standard deviation that is zero in
\* exact arithmetic but not in floating point.
Float(kind, num, den) == [kind |-> kind, num |-> num, den |-> den]
Zero == Float("finite", 0, 1)
NaN == Float("nan", 0, 1)

RECURSIVE SumSeq(_)
SumSeq(q) == IF q = <<>> THEN 0 ELSE Head(q) + SumSeq(Tail(q))

\* max(max(q, default=0), 0) and min(min(q, default=0), 0)
MaxOrZero(q) == IF \E i \in DOMAIN q : q[i] > 0
                THEN CHOOSE x \in {q[i] : i \in DOMAIN q} : \A j \in DOMAIN q : q[j] <= x
                ELSE 0
MinOrZero(q) == IF \E i \in DOMAIN q : q[i] < 0
                THEN CHOOSE x \in {q[i] : i \in DOMAIN q} : \A j \in DOMAIN q : q[j] >= x
                ELSE 0

\* winners counted with >= instead of >
Winners_CountZero(q) == SelectSeq(q, LAMBDA x : x >= 0)

\* [trade for trade in self.trade_returns if trade > 0]
Winners(q) == SelectSeq(q, LAMBDA x : x > 0)
Losers(q) == SelectSeq(q, LAMBDA x : x < 0)

\* n^2 times the population variance of q: n * sum(x^2) - sum(x)^2
VarNum(q) == Len(q) * SumSeq([i \in DOMAIN q |-> q[i] * q[i]]) - SumSeq(q) * SumSeq(q)

\* the values numpy can give for mean(a) / std(b), where sum_a = sum(a), n_a =
\* len(a): kind "finite" means num / sqrt(den)
MeanOverStd(sum_a, n_a, b) ==
    IF n_a = 0 \/ b = <<>> THEN {NaN}                      \* mean or std of an empty slice is nan
    ELSE IF VarNum(b) # 0 THEN {Float("finite", sum_a * Len(b), VarNum(b) * n_a * n_a)}
    ELSE LET exact == IF sum_a > 0 THEN Float("inf", 0, 1)
                      ELSE IF sum_a < 0 THEN Float("-inf", 0, 1)
                      ELSE NaN
         IN  IF Len(b) >= 3 /\ b[1] # 0                   \* sum / n need not round back to x
             THEN {exact, Float(IF sum_a > 0 THEN "huge" ELSE IF sum_a < 0 THEN "-huge"
                                ELSE "finite", 0, 1)}
             ELSE {exact}

\* line 83: the guard and the quotient of the risk-reward ratio;
\* kind "raise" is the ZeroDivisionError of gross_profit / 0 or gross_loss / 0
risk_reward_ratio(gross_profit, winners, gross_loss, losers) ==
    IF (losers > 0 /\ gross_loss # 0) \/ (winners > 0 /\ gross_profit # 0)
    THEN IF winners = 0 \/ losers = 0 THEN Float("raise", 0, 1)
         ELSE Float("finite", gross_profit * losers, winners * (0 - gross_loss))   \* num / den
    ELSE Zero

\* line 86: std(excess) != 0 or len(excess) != 0, where std of an empty slice
\* is nan and nan != 0 is true
sharpe_ratio(excess) ==
    IF (excess = <<>> \/ VarNum(excess) # 0) \/ Len(excess) # 0
    THEN MeanOverStd(SumSeq(excess), Len(excess), excess)
    ELSE {Zero}

\* line 88
sortino_ratio(excess) ==
    LET downside_returns == SelectSeq(excess, LAMBDA x : x < 0)
    IN  IF \/ (downside_returns = <<>> \/ VarNum(downside_returns) # 0)
           \/ Len(excess) # 0
           \/ Len(downside_returns) # 0
        THEN MeanOverStd(SumSeq(excess), Len(excess), downside_returns)
        ELSE {Zero}

\* the set of records calculate_metrics can return; returned = "empty" is the {}
\* of the except clause
calculate_metrics ==
    LET gross_profit == SumSeq(Winners(trade_returns))
        gross_loss == SumSeq(Losers(trade_returns))
        total_trades == Len(trade_log)
        winners == Len(Winners(trade_returns))
        losers == Len(Losers(trade_returns))
        rr == risk_reward_ratio(gross_profit, winners, gross_loss, losers)
        gross_returns == [i \in DOMAIN trade_returns_percentage |->
                              trade_returns_percentage[i].num]
        excess_return == [i \in DOMAIN gross_returns |-> gross_returns[i] - risk_free_rate]
    IN  IF rr.kind = "raise" THEN {[returned |-> "empty"]}
        ELSE {[returned |-> "record",
               starting_balance |-> initial_capital,
               final_balance |-> capital,
               gross_profit |-> gross_profit,
               gross_loss |-> gross_loss,
               net_profit |-> gross_profit + gross_loss,
               total_trades |-> total_trades,
               total_open_trades |-> Len(pending_trades),
               commission |-> total_trades * commission,
               winners |-> winners,
               losers |-> losers,
               biggest_winner |-> MaxOrZero(trade_returns),
               biggest_losser |-> MinOrZero(trade_returns),
               risk_reward_ratio |-> rr,
               sharpe_ratio |-> sh,
               sortino_ratio |-> so,
               \* sqrt(num / den) in units of 1 / PctDen
               volatility |-> IF Len(gross_returns) > 0
                              THEN Float("finite", VarNum(gross_returns),
                                         Len(gross_returns) * Len(gross_returns))
                              ELSE Zero]
              : sh \in sharpe_ratio(excess_return), so \in sortino_ratio(excess_return)}

MaxReturns == 3

RECURSIVE SeqsUpTo(_, _)
SeqsUpTo(S, n) ==
    IF n = 0 THEN {<<>>}
    ELSE LET shorter == SeqsUpTo(S, n - 1)
         IN  shorter \cup {Append(q, x) : q \in {r \in shorter : Len(r) = n - 1}, x \in S}

\* self.trade_returns of the unit test
TestReturns == <<200, -100, 300, -50, 250>>
\* the first entries of self.trade_returns_percentage of the unit test, times PctDen
TestPercentages == <<[num |-> 2, den |-> PctDen], [num |-> -1, den |-> PctDen],
                     [num |-> 3, den |-> PctDen]>>

ReturnLists == SeqsUpTo({-2, -1, 0, 1, 2}, MaxReturns) \cup {TestReturns}
PercentageLists ==
    SeqsUpTo({[num |-> n, den |-> PctDen] : n \in {0, 2, 5}}, MaxReturns) \cup {TestPercentages}

\* n logged trades, n open positions: only their number is read
SomeTrades(n) == [i \in 1..n |-> [time |-> i, action |-> "BUY", price |-> 1, capital |-> 0]]
SomePositions(n) == [i \in 1..n |-> [time |-> i, action |-> "BUY"]]

\* PerformanceMetrics(initial_capital, capital, trade_returns,
\*                    trade_returns_percentage, commission, trade_log, open_positions)
MetricsInit ==
    /\ data = <<>>
    /\ initial_capital = StartCapital
    /\ commission = Commission
    /\ close_time_delta = HoldingMinutes
    /\ capital = StartCapital + Unit
    /\ trade_returns \in ReturnLists
    /\ trade_returns_percentage \in PercentageLists
    /\ trade_log \in {SomeTrades(n) : n \in {0, 2, 5}}
    /\ pending_trades \in {SomePositions(n) : n \in {0, 2}}
    /\ current_index = None
    /\ current_date = None
    /\ position_close_time = <<>>
    /\ pc = "done"
    /\ signal = "none"
    /\ close_match = <<>>
    /\ error_log = {}
    /\ runs = 1
    /\ call = NoCall
    /\ metrics = NotCalculated
    /\ strategy = NoStrategy

CalculateMetrics ==
    /\ metrics = NotCalculated
    /\ metrics' \in calculate_metrics
    /\ UNCHANGED <<inputs, runs, call, strategy, ledger, current_index, current_date, pc,
                   signal, error_log>>

MetricsNext == CalculateMetrics

MetricsSpec == MetricsInit /\ [][MetricsNext]_vars

\* -------------------------------------------------------- MomentumStrategy
\* Constructor arguments. `columns` is the column of the frame ("Close" or
\* another name); a number is [type |-> "int" or "float", num, den] with value
\* num / den, float("nan") is [type |-> "nan"], anything else [type |-> "str"].
Number(type, num, den) == [type |-> type, num |-> num, den |-> den]

\* isinstance(period, int) and period > 1
ValidPeriod(period) == period.type = "int" /\ period.num > 1

\* a validation that lets any number through, whatever its sign
ValidThreshold_AnySign(threshold) == threshold.type \in {"int", "float", "nan"}

\* isinstance(threshold, (int, float)) and not threshold <= 0; a comparison
\* with nan is false
ValidThreshold(threshold) ==
    /\ threshold.type \in {"int", "float", "nan"}
    /\ ~(threshold.type # "nan" /\ threshold.num <= 0)

\* sum of the `period` prices ending at row i
WindowSum(i, period) == SumSeq([k \in 1..period |-> data[i - period + k].price])

\* momentum that keeps the row of the first complete window
MomentumRows_FirstWindow(period) ==
    {i \in DOMAIN data :
        /\ i >= period
        /\ ~(WindowSum(i, period) = 0)}

\* rows of rolling_avg.diff() / rolling_avg that dropna keeps: the window and
\* the previous window are complete, and the quotient is not 0 / 0
MomentumRows(period) ==
    {i \in DOMAIN data :
        /\ i >= period + 1
        /\ ~(WindowSum(i, period) = 0 /\ WindowSum(i - 1, period) = 0)}

\* calculate_momentum: timestamp -> (avg - previous avg) / avg, as num / den;
\* a quotient by avg = 0 is inf or -inf
calculate_momentum(period) ==
    LET rows == MomentumRows(period)
        value(i) ==
            LET s == WindowSum(i, period)
                d == s - (IF i > period THEN WindowSum(i - 1, period) ELSE 0)
            IN  IF s # 0 THEN Float("finite", d, s)
                ELSE IF d > 0 THEN Float("inf", 0, 1) ELSE Float("-inf", 0, 1)
    IN  [t \in {data[i].time : i \in rows} |->
            value(CHOOSE i \in rows : data[i].time = t)]

\* MomentumStrategy.__init__
construct(args) ==
    IF \/ data = <<>>
       \/ ~ValidPeriod(args.period)
       \/ ~ValidThreshold(args.threshold)
       \/ args.columns # "Close"
    THEN [args EXCEPT !.state = "ValueError"]
    ELSE [args EXCEPT !.state = "constructed",
                      !.computed = TRUE,
                      !.momentum = calculate_momentum(args.period.num)]

\* value > self.threshold
Above(value, threshold) ==
    IF threshold.type = "nan" THEN FALSE
    ELSE IF value.kind = "inf" THEN TRUE
    ELSE IF value.kind = "-inf" THEN FALSE
    ELSE value.num * threshold.den > threshold.num * value.den

\* value < -self.threshold
Below(value, threshold) ==
    IF threshold.type = "nan" THEN FALSE
    ELSE IF value.kind = "inf" THEN FALSE
    ELSE IF value.kind = "-inf" THEN TRUE
    ELSE value.num * threshold.den < (0 - threshold.num) * value.den

should_buy(strat, time_index) ==
    IF time_index \in DOMAIN strat.momentum
    THEN Above(strat.momentum[time_index], strat.threshold)
    ELSE FALSE

\* should_sell that compares with the positive threshold
should_sell_PositiveThreshold(strat, time_index) ==
    IF time_index \in DOMAIN strat.momentum
    THEN ~Above(strat.momentum[time_index], strat.threshold)
    ELSE FALSE

should_sell(strat, time_index) ==
    IF time_index \in DOMAIN strat.momentum
    THEN Below(strat.momentum[time_index], strat.threshold)
    ELSE FALSE

MaxRows == 4

\* "Close" of the strategy test frame, one row per day
StrategyTestPrices == <<100, 102, 104, 106, 108, 110, 108, 106, 104, 102>>

\* frames with rows 0 .. n-1
StrategyFrames ==
    {[i \in 1..Len(p) |-> [time |-> i - 1, price |-> p[i]]] :
        p \in SeqsUpTo({0, 1, 3}, MaxRows) \cup {StrategyTestPrices}}

Periods == {Number("int", n, 1) : n \in {0, 1, 2, 3}}
               \cup {Number("float", 5, 2), Number("str", 0, 1)}
Thresholds == {Number("float", 1, 100), Number("float", 1, 2), Number("int", 0, 1),
               Number("int", -1, 1), Number("nan", 0, 1), Number("str", 0, 1)}

\* the arguments of MomentumStrategy(data, threshold, period)
StrategyInit ==
    /\ data \in StrategyFrames
    /\ strategy \in {[state |-> "arguments", columns |-> c, threshold |-> th, period |-> p,
                      computed |-> FALSE, momentum |-> <<>>] :
                        c \in {"Close", "Open"}, th \in Thresholds, p \in Periods}
    /\ initial_capital = StartCapital
    /\ commission = Commission
    /\ close_time_delta = HoldingMinutes
    /\ capital = initial_capital
    /\ trade_log = <<>>
    /\ current_index = None
    /\ current_date = None
    /\ position_close_time = <<>>
    /\ trade_returns = <<>>
    /\ trade_returns_percentage = <<>>
    /\ pending_trades = <<>>
    /\ pc = "next"
    /\ signal = "none"
    /\ close_match = <<>>
    /\ error_log = {}
    /\ runs = 1
    /\ call = NoCall
    /\ metrics = NotCalculated

Construct ==
    /\ strategy.state = "arguments"
    /\ strategy' = construct(strategy)
    /\ UNCHANGED <<inputs, runs, call, metrics, ledger, current_index, current_date, pc,
                   signal, error_log>>

\* should_buy(t) and should_sell(t), as check_strategy asks them
Query ==
    /\ strategy.state = "constructed"
    /\ \E t \in 0..Len(data) :
          /\ current_index' = t
          /\ signal' = IF should_buy(strategy, t)
                       THEN (IF should_sell(strategy, t) THEN "both" ELSE "buy")
                       ELSE (IF should_sell(strategy, t) THEN "sell" ELSE "none")
    /\ UNCHANGED <<inputs, runs, call, metrics, strategy, ledger, current_date, pc, error_log>>

StrategyNext == Construct \/ Query

StrategySpec == StrategyInit /\ [][StrategyNext]_vars

\* --------------------------------------------------------------------- C11
\* position of the clock in the series: 0 before the first next()
ClockPos == IF current_index = None THEN 0
            ELSE CHOOSE i \in DOMAIN data : data[i].time = current_index

\* C11: the clock only moves forward one element at a time: a next() that
\* returns true seats current_index on the element right after the current one
\* (the first element on the first call) and sets current_date to its date; at
\* the last timestamp next() returns false and leaves current_index unchanged.
C11_ClockStepsOneAtATime ==
    [][ pc = "next" =>
          IF ClockPos < Len(data)
          THEN /\ pc' = "check"
               /\ current_index' = data[ClockPos + 1].time
               /\ current_date' = data[ClockPos + 1].time \div (24 * 60)
          ELSE /\ pc' = "done"
               /\ current_index' = current_index
               /\ current_date' = current_date
      ]_vars

\* the clock has reached the third timestamp, on a later day than the first
C11_Witness ==
    /\ pc = "check"
    /\ ClockPos = 3
    /\ current_date > data[1].time \div (24 * 60)

\* --------------------------------------------------------------------- C12
\* C12: calling run() again on an engine whose clock is exhausted mutates
\* nothing: capital, the trade log, both return series, the pending trades, the
\* scheduled close times and the clock position stay as the first run left
\* them, also when scheduled closes or pending trades are outstanding.
C12_SecondRunMutatesNothing ==
    [][ runs' > 1 =>
          /\ capital' = capital
          /\ trade_log' = trade_log
          /\ trade_returns' = trade_returns
          /\ trade_returns_percentage' = trade_returns_percentage
          /\ pending_trades' = pending_trades
          /\ position_close_time' = position_close_time
          /\ current_index' = current_index
          /\ current_date' = current_date
          /\ pc' \in {"next", "done"}
      ]_vars

\* a second run() has returned on an engine that still holds a scheduled close
\* and a pending trade
C12_Witness ==
    /\ runs = 2
    /\ pc = "done"
    /\ position_close_time # <<>>
    /\ pending_trades # <<>>
    /\ trade_log # <<>>

\* --------------------------------------------------------------------- C13
\* C13: on an empty price series run() ends at once: no tick is processed, the
\* strategy is never queried, the log stays empty and capital stays the initial
\* capital; and on any series the log leaves emptiness only at a tick where the
\* strategy signalled, so a strategy that never signals leaves the log empty.
C13_EmptySeriesOrSilentStrategyLeavesLogEmpty ==
    [][ /\ data = <<>> =>
              /\ pc = "next" /\ pc' = "done"
              /\ current_index' = None /\ current_date' = None
              /\ signal' = "none" /\ error_log' = {}
              /\ trade_log' = <<>> /\ trade_returns' = <<>>
              /\ capital' = initial_capital
        /\ (trade_log = <<>> /\ trade_log' # <<>>) =>
              /\ pc = "check"
              /\ signal' \in {"buy", "sell", "both"}
        /\ (pc = "check" /\ signal' = "none") => trade_log' = trade_log
      ]_vars

\* run() has returned on an empty series
C13_Witness ==
    /\ data = <<>>
    /\ pc = "done"
    /\ trade_log = <<>>
    /\ capital = initial_capital

\* --------------------------------------------------------------------- C14
\* the <<time, side>> pairs of the opens in the log
OpensInLog == {<<trade_log[i].time, trade_log[i].action>> : i \in OpenIdx}

\* C14: in an intraday run with sufficient capital, every close time in the
\* series and every signal strictly after the previous close tick, the log
\* alternates open, CLOSE, open, CLOSE, each open has the side of its signal,
\* each CLOSE closes the open right before it, and no scheduled close is left
\* when run() returns; with a LONG signal at minute 1 and a SHORT signal at
\* minute 5 of the test frame the log is exactly LONG at 102, CLOSE, SHORT,
\* CLOSE and the final capital is below the initial 10000.
C14_LogAlternatesOpenClose ==
    /\ \A i \in DOMAIN trade_log :
          IF i % 2 = 1
          THEN trade_log[i].action \in {"BUY", "SELL"}
          ELSE /\ trade_log[i].action = "CLOSE"
               /\ trade_log[i].time = trade_log[i - 1].time + close_time_delta
               /\ close_match[i \div 2] =
                      [open_idx |-> i - 1, close_idx |-> i, path |-> "scheduled"]
    /\ (pc = "close" /\ signal # "none") =>
          /\ trade_log # <<>>
          /\ trade_log[Len(trade_log)].time = current_index
          /\ trade_log[Len(trade_log)].action = (IF signal = "sell" THEN "SELL" ELSE "BUY")
    /\ pc = "done" =>
          /\ position_close_time = <<>>
          /\ pending_trades = <<>>
          /\ Len(trade_log) % 2 = 0
    /\ (pc = "done" /\ OpensInLog = {<<1, "BUY">>, <<5, "SELL">>}) =>
          /\ trade_log =
                << [time |-> 1, action |-> "BUY",   price |-> 102, capital |-> 19792],
                   [time |-> 4, action |-> "CLOSE", price |-> 105, capital |-> 19998],
                   [time |-> 5, action |-> "SELL",  price |-> 107, capital |-> 19887],
                   [time |-> 8, action |-> "CLOSE", price |-> 109, capital |-> 19992] >>
          /\ capital = 19992
          /\ capital < 10000 * Unit

\* the test's run has returned: LONG at minute 1, SHORT at minute 5, both closed
C14_Witness ==
    /\ pc = "done"
    /\ OpensInLog = {<<1, "BUY">>, <<5, "SELL">>}
    /\ Len(trade_log) = 4

\* --------------------------------------------------------------------- C15
\* the price of the row the clock is on
TickPrice == data[ClockPos].price

\* C15: a tick opens at most one position and LONG is tried first: when both
\* signals are true the only entry the tick can add is a LONG open, and when
\* that LONG is rejected for insufficient capital nothing is opened at all,
\* even if a SHORT would have been affordable.
C15_AtMostOneOpenLongFirst ==
    [][ pc = "check" =>
          /\ Len(trade_log') <= Len(trade_log) + 1
          /\ signal' = "both" =>
                IF capital - (TickPrice * Unit + commission) > 0
                THEN /\ Len(trade_log') = Len(trade_log) + 1
                     /\ trade_log'[Len(trade_log')].action = "BUY"
                     /\ trade_log'[Len(trade_log')].time = current_index
                ELSE /\ trade_log' = trade_log
                     /\ capital' = capital
                     /\ position_close_time' = position_close_time
                     /\ pending_trades' = pending_trades
      ]_vars

\* both signals were true, the LONG was unaffordable, a SHORT was affordable,
\* and the tick opened nothing
C15_Witness ==
    /\ pc = "close"
    /\ signal = "both"
    /\ capital - (TickPrice * Unit + commission) <= 0
    /\ capital - (TickPrice * short_ratio + commission) > 0
    /\ \A i \in DOMAIN trade_log : trade_log[i].time # current_index

\* --------------------------------------------------------------------- C16
\* C16: a successful open appends exactly one trade, stamped with the current
\* timestamp, the signalled side, the series price at that timestamp and the
\* capital after the debit; the debit is price * quantity + commission for a
\* LONG and price * quantity * 0.5 + commission for a SHORT (quantity 1).
C16_OpenDebitsCostAndLogsTrade ==
    [][ (pc = "check" /\ trade_log' # trade_log) =>
          LET e == trade_log'[Len(trade_log')]
          IN  /\ trade_log' = Append(trade_log, e)
              /\ e.time = current_index
              /\ e.price = TickPrice
              /\ e.action = (IF signal' = "sell" THEN "SELL" ELSE "BUY")
              /\ e.capital = capital'
              /\ e.action = "BUY"  => capital - capital' = TickPrice * Unit + commission
              /\ e.action = "SELL" => 2 * (capital - capital') = TickPrice * Unit + 2 * commission
      ]_vars

\* a SHORT has just been opened at price 3 and debited 3 * 0.5 + commission
C16_Witness ==
    /\ pc = "close"
    /\ signal = "sell"
    /\ trade_log # <<>>
    /\ trade_log[Len(trade_log)].time = current_index
    /\ trade_log[Len(trade_log)].action = "SELL"
    /\ trade_log[Len(trade_log)].price = 3
    /\ Len(trade_log) = 1
    /\ 2 * (initial_capital - capital) = 3 * Unit + 2 * commission

\* --------------------------------------------------------------------- C17
\* C17: every close credits capital with close_price * quantity - commission
\* for a LONG and close_price * quantity * 0.5 - commission for a SHORT, appends
\* a CLOSE entry at the close timestamp with the series price at that
\* timestamp, and records the absolute return (close - open for a LONG, open -
\* close for a SHORT) together with a percentage p with p * open = return * 100,
\* open being the price of the matched open trade (quantity 1).
C17_CloseCreditsAndRecordsReturns ==
    [][ \A k \in (Len(close_match) + 1)..Len(close_match') :
          LET o    == trade_log'[close_match'[k].open_idx]
              ci   == close_match'[k].close_idx
              c    == trade_log'[ci]
              at   == IF call'.op = "none" THEN current_index ELSE call'.close_time
              long == o.action = "BUY"
              ret  == IF long THEN c.price - o.price ELSE o.price - c.price
          IN  /\ ci > Len(trade_log)
              /\ c.action = "CLOSE"
              /\ c.time = at
              /\ \E i \in DOMAIN data : data[i].time = at /\ data[i].price = c.price
              /\ long  => c.capital - trade_log'[ci - 1].capital = c.price * Unit - commission
              /\ ~long => 2 * (c.capital - trade_log'[ci - 1].capital)
                              = c.price * Unit - 2 * commission
              /\ ci = Len(trade_log') => capital' = c.capital
              /\ ci = Len(trade_log) + 1 => trade_log'[ci - 1].capital = capital
              /\ k \in DOMAIN trade_returns'
              /\ trade_returns'[k] = ret
              /\ Len(trade_returns_percentage') = Len(trade_returns')
              /\ trade_returns_percentage'[k].den # 0
              /\ trade_returns_percentage'[k].num * o.price
                     = ret * 100 * trade_returns_percentage'[k].den
      ]_vars

\* --------------------------------------------------------------------- C18
\* the open timestamp the last close call looked up
LookedUpOpenTime(c) ==
    IF c.op = "close_position" THEN c.close_time - close_time_delta ELSE c.open_time

\* C18: a call of close_position or close_pending_position whose close
\* timestamp has no price in the series, or whose looked-up open timestamp
\* carries no non-CLOSE trade in the log, leaves capital, the trade log and
\* both return lists unchanged.
C18_FailedCloseMutatesNothing ==
    [][ ( /\ call'.op \in {"close_position", "close_pending_position"}
          /\ \/ \A i \in DOMAIN data : data[i].time # call'.close_time
             \/ \A i \in DOMAIN trade_log :
                   trade_log[i].time = LookedUpOpenTime(call') => trade_log[i].action = "CLOSE" )
        => /\ capital' = capital
           /\ trade_log' = trade_log
           /\ trade_returns' = trade_returns
           /\ trade_returns_percentage' = trade_returns_percentage
      ]_vars

\* close_pending_position was called for an open time that carries only a CLOSE
\* entry, while an open trade sits elsewhere in the log
C18_Witness ==
    /\ call.op = "close_pending_position"
    /\ \E i \in DOMAIN data : data[i].time = call.close_time
    /\ \E i \in DOMAIN trade_log :
          trade_log[i].time = call.open_time /\ trade_log[i].action = "CLOSE"
    /\ \A i \in DOMAIN trade_log :
          trade_log[i].time = call.open_time => trade_log[i].action = "CLOSE"
    /\ Len(trade_log) = 2

\* --------------------------------------------------------------------- C19
\* C19: in every reachable state the absolute-return list and the
\* percentage-return list have the same length, which is the number of CLOSE
\* entries in the trade log, for non-negative open and close prices, an open
\* price of 0 included.
C19_ReturnListsMatchCloses ==
    /\ Len(trade_returns) = Len(trade_returns_percentage)
    /\ Len(trade_returns) = Cardinality({i \in DOMAIN trade_log : trade_log[i].action = "CLOSE"})

\* --------------------------------------------------------------------- C20
\* C20: with a positive initial capital, capital is strictly positive after
\* every open and every close of the run and when run() has returned, for
\* positive prices and a non-negative commission.
C20_CapitalStaysPositive ==
    /\ capital > 0
    /\ \A i \in DOMAIN trade_log : trade_log[i].capital > 0

\* --------------------------------------------------------------------- C21
\* C21: the trade log is append-only: every step of the engine leaves the log
\* it found as a prefix of the log it leaves, so no entry is ever changed,
\* moved or removed.
C21_TradeLogAppendOnly ==
    [][ /\ Len(trade_log') >= Len(trade_log)
        /\ \A i \in DOMAIN trade_log : trade_log'[i] = trade_log[i]
      ]_vars

\* the log has grown through an open, its close and a later open
C21_Witness ==
    /\ Len(trade_log) >= 3
    /\ trade_log[1].action # "CLOSE"
    /\ trade_log[2].action = "CLOSE"
    /\ trade_log[3].action # "CLOSE"

\* --------------------------------------------------------------------- C22
\* a float result that is exactly zero
IsZero(v) == v.kind = "finite" /\ v.num = 0

\* C22: calculate_metrics returns the full record with a Sharpe ratio of
\* exactly zero whenever the percentage-return series is empty or all its
\* values are equal (a single trade included), and over empty return series
\* every metric is zero.
C22_SharpeZeroWhenUndefined ==
    metrics.returned # "nothing" =>
        /\ (\A i, j \in DOMAIN trade_returns_percentage :
                trade_returns_percentage[i] = trade_returns_percentage[j])
             => /\ metrics.returned = "record"
                /\ IsZero(metrics.sharpe_ratio)
        /\ (trade_returns = <<>> /\ trade_returns_percentage = <<>>)
             => /\ metrics.returned = "record"
                /\ metrics.gross_profit = 0 /\ metrics.gross_loss = 0
                /\ metrics.net_profit = 0
                /\ metrics.winners = 0 /\ metrics.losers = 0
                /\ metrics.biggest_winner = 0 /\ metrics.biggest_losser = 0
                /\ IsZero(metrics.risk_reward_ratio)
                /\ IsZero(metrics.sharpe_ratio)
                /\ IsZero(metrics.sortino_ratio)
                /\ IsZero(metrics.volatility)

\* --------------------------------------------------------------------- C23
\* C23: calculate_metrics always returns the full record; its risk-reward
\* ratio is zero when there are no winning trades or no losing trades, and
\* mean-win / |mean-loss| otherwise.
C23_RiskRewardZeroWhenUndefined ==
    metrics.returned # "nothing" =>
        LET wins   == {i \in DOMAIN trade_returns : trade_returns[i] > 0}
            losses == {i \in DOMAIN trade_returns : trade_returns[i] < 0}
        IN  /\ metrics.returned = "record"
            /\ IF wins = {} \/ losses = {}
               THEN IsZero(metrics.risk_reward_ratio)
               ELSE /\ metrics.risk_reward_ratio.kind = "finite"
                    \* num / den = (gross_profit / winners) / (-gross_loss / losers)
                    /\ metrics.risk_reward_ratio.num * Cardinality(wins) * (0 - metrics.gross_loss)
                         = metrics.risk_reward_ratio.den * metrics.gross_profit * Cardinality(losses)
                    /\ metrics.risk_reward_ratio.den > 0

\* --------------------------------------------------------------------- C24
\* the sum of q over the index set I
RECURSIVE SumAt(_, _)
SumAt(q, I) ==
    IF I = {} THEN 0
    ELSE LET i == CHOOSE j \in I : TRUE
         IN  q[i] + SumAt(q, I \ {i})

\* C24: for absolute returns with at least one winner and one loser the record
\* holds gross_profit = sum of the positive returns, gross_loss = sum of the
\* negative returns, net_profit = their sum = sum of all returns, winners and
\* losers = the counts of positive and negative returns, biggest_winner and
\* biggest_losser = the largest and the smallest return, total_trades = length
\* of the trade log, commission = total_trades * commission, total_open_trades
\* = number of pending trades, and the starting and final balance as given.
C24_MetricsRecordFields ==
    LET wins   == {i \in DOMAIN trade_returns : trade_returns[i] > 0}
        losses == {i \in DOMAIN trade_returns : trade_returns[i] < 0}
    IN  (metrics.returned # "nothing" /\ wins # {} /\ losses # {}) =>
            /\ metrics.returned = "record"
            /\ metrics.gross_profit = SumAt(trade_returns, wins)
            /\ metrics.gross_loss = SumAt(trade_returns, losses)
            /\ metrics.net_profit = metrics.gross_profit + metrics.gross_loss
            /\ metrics.net_profit = SumAt(trade_returns, DOMAIN trade_returns)
            /\ metrics.winners = Cardinality(wins)
            /\ metrics.losers = Cardinality(losses)
            /\ \E i \in wins : metrics.biggest_winner = trade_returns[i]
            /\ \A i \in DOMAIN trade_returns : trade_returns[i] <= metrics.biggest_winner
            /\ \E i \in losses : metrics.biggest_losser = trade_returns[i]
            /\ \A i \in DOMAIN trade_returns : trade_returns[i] >= metrics.biggest_losser
            /\ metrics.total_trades = Len(trade_log)
            /\ metrics.commission = Len(trade_log) * commission
            /\ metrics.total_open_trades = Len(pending_trades)
            /\ metrics.starting_balance = initial_capital
            /\ metrics.final_balance = capital

\* the unit test's record: returns 200, -100, 300, -50, 250 over five trades
\* and two open positions
C24_Witness ==
    /\ metrics.returned = "record"
    /\ trade_returns = <<200, -100, 300, -50, 250>>
    /\ Len(trade_log) = 5
    /\ Len(pending_trades) = 2
    /\ metrics.gross_profit = 750
    /\ metrics.gross_loss = -150
    /\ metrics.net_profit = 600
    /\ metrics.winners = 3
    /\ metrics.losers = 2
    /\ metrics.biggest_winner = 300
    /\ metrics.biggest_losser = -100
    /\ metrics.commission = 5 * commission

\* --------------------------------------------------------------------- C25
\* C25: constructing a MomentumStrategy fails with an error, before the
\* momentum series is computed, when the data is empty or has no 'Close'
\* column, when the period is not an integer greater than 1, or when the
\* threshold is not a positive number; otherwise construction succeeds.
C25_ConstructionFailsFast ==
    strategy.state \in {"ValueError", "constructed"} =>
        LET malformed ==
                \/ data = <<>>
                \/ strategy.columns # "Close"
                \/ ~(strategy.period.type = "int" /\ strategy.period.num > 1)
                \/ ~(strategy.threshold.type \in {"int", "float"} /\ strategy.threshold.num > 0)
        IN  IF malformed
            THEN strategy.state = "ValueError" /\ ~strategy.computed
            ELSE strategy.state = "constructed" /\ strategy.computed

\* --------------------------------------------------------------------- C26
\* C26: a constructed strategy answers false to should_buy and should_sell at
\* every timestamp without a momentum value: a timestamp that is not in its
\* data, and each of the first `period` timestamps of the data.
C26_NoSignalWhereMomentumUndefined ==
    (strategy.state = "constructed" /\ current_index # None) =>
        LET rows == {i \in DOMAIN data : data[i].time = current_index}
        IN  (rows = {} \/ \E i \in rows : i <= strategy.period.num) => signal = "none"

\* the strategy was asked at a timestamp after its last row, while other rows
\* carry a momentum value, and answered false twice
C26_Witness ==
    /\ strategy.state = "constructed"
    /\ DOMAIN strategy.momentum # {}
    /\ current_index = Len(data)
    /\ signal = "none"

\* --------------------------------------------------------------------- C27
\* sum of the `n` closing prices ending at row i
ClosesEndingAt(i, n) == SumAt([k \in DOMAIN data |-> data[k].price], (i - n + 1)..i)

\* C27: where the momentum m(t) = (avg(t) - avg(t-1)) / avg(t) is defined, avg
\* being the mean of the last `period` closing prices, should_buy(t) is true
\* exactly when m(t) > threshold and should_sell(t) exactly when
\* m(t) < -threshold.
C27_SignalsFollowMomentum ==
    (strategy.state = "constructed" /\ current_index # None /\ strategy.threshold.type # "nan") =>
        \A i \in DOMAIN data :
            (/\ data[i].time = current_index
             /\ i > strategy.period.num
             /\ ClosesEndingAt(i, strategy.period.num) > 0) =>
                LET n  == strategy.period.num
                    th == strategy.threshold
                    \* m(t) = d / a: the period cancels in the quotient of the means
                    a  == ClosesEndingAt(i, n)
                    d  == a - ClosesEndingAt(i - 1, n)
                IN  /\ (signal \in {"buy", "both"})  <=> (d * th.den > th.num * a)
                    /\ (signal \in {"sell", "both"}) <=> (d * th.den < (0 - th.num) * a)

\* the unit test's strategy (period 3, threshold 0.01) asked on 2023-01-05,
\* where the three-day average rose from 104 to 106
C27_Witness ==
    /\ strategy.state = "constructed"
    /\ Len(data) = 10
    /\ strategy.period.num = 3
    /\ strategy.threshold = [type |-> "float", num |-> 1, den |-> 100]
    /\ current_index = 4
    /\ signal = "buy"

\* --------------------------------------------------------------------- C28
\* twice the amount entry i of the log moved capital by: minus (price * ratio +
\* commission) for an open, plus (price * ratio - commission) for a CLOSE, the
\* ratio being 1 for a LONG position and 0.5 for a SHORT one
TwiceBooked(i) ==
    LET e    == trade_log[i]
        side == IF e.action # "CLOSE" THEN e.action
                ELSE trade_log[(CHOOSE m \in {close_match[k] : k \in DOMAIN close_match} :
                                    m.close_idx = i).open_idx].action
        gross == IF side = "BUY" THEN 2 * e.price * Unit ELSE e.price * Unit
    IN  IF e.action # "CLOSE" THEN 0 - (gross + 2 * commission)
        ELSE gross - 2 * commission

\* C28: in every reachable state of run(), capital is the initial capital minus
\* the sum over the logged opens of (price * ratio + commission) plus the sum
\* over the logged CLOSE entries of (price * ratio - commission): every open
\* and every close is booked once and nothing else moves capital.
C28_CapitalIsInitialPlusBookings ==
    2 * capital = 2 * initial_capital
                    + SumAt([i \in DOMAIN trade_log |-> TwiceBooked(i)], DOMAIN trade_log)

\* run() has closed a LONG and a SHORT position and holds a third one
C28_Witness ==
    /\ \E k \in DOMAIN close_match : trade_log[close_match[k].open_idx].action = "BUY"
    /\ \E k \in DOMAIN close_match : trade_log[close_match[k].open_idx].action = "SELL"
    /\ Len(trade_log) = 5
    /\ capital # initial_capital

\* --------------------------------------------------------------------- C29
\* in how many of the three places the open entry at log index i is held
Places(i) == (IF IsClosed(i) THEN 1 ELSE 0) + (IF IsPending(i) THEN 1 ELSE 0)
                 + (IF IsScheduled(i) THEN 1 ELSE 0)

\* C29: after every completed tick of run() each open trade is accounted for
\* in exactly one place, closed, pending or scheduled, so the number of
\* non-CLOSE entries of the log is the number of CLOSE entries plus the number
\* of pending trades plus the number of scheduled close times; also at ticks
\* where the strategy raised and when a scheduled close time is not in the
\* series.
C29_OpensAccountedForOnce ==
    TickEnd =>
        /\ NumOpen = NumClose + Len(pending_trades) + Len(position_close_time)
        /\ \A i \in OpenIdx : Places(i) = 1

\* a tick has ended at which the strategy raised while a scheduled close was
\* due, with another trade closed and another scheduled outside the series
C29_Witness ==
    /\ TickEnd
    /\ current_index \in error_log
    /\ current_index \in Elems(position_close_time)
    /\ \E c \in Elems(position_close_time) : \A i \in DOMAIN data : data[i].time # c
    /\ NumOpen >= 2

\* --------------------------------------------------------------------- C30
\* C30: the capital field of every log entry is the engine's capital right
\* after that operation: it differs from the previous entry's capital field
\* (the initial capital for the first entry) by what the entry booked, the
\* last entry's capital field is the current capital, and while the log is
\* empty capital is the initial capital.
C30_EntryCapitalIsPostOperationCapital ==
    /\ trade_log = <<>> => capital = initial_capital
    /\ trade_log # <<>> => trade_log[Len(trade_log)].capital = capital
    /\ \A i \in DOMAIN trade_log :
          2 * trade_log[i].capital =
              2 * (IF i = 1 THEN initial_capital ELSE trade_log[i - 1].capital) + TwiceBooked(i)

\* a close has just been logged with a capital other than the one before it
C30_Witness ==
    /\ pc = "settle"
    /\ Len(trade_log) >= 2
    /\ trade_log[Len(trade_log)].action = "CLOSE"
    /\ trade_log[Len(trade_log)].time = current_index
    /\ trade_log[Len(trade_log)].capital # trade_log[Len(trade_log) - 1].capital
    /\ trade_log[Len(trade_log)].capital = capital

\* ------------------------------------------- run() around the clock
\* the engine on series whose rows fall anywhere in the day (midnight, the
\* minutes around 16:00, the last minute) and with several holding durations
MaxTicks == 2        \* longest round-the-clock series

\* minutes of the day that carry data
DayMinutes == {0, 1, exchange_close_time - 4, exchange_close_time - 2,
               exchange_close_time - 1, exchange_close_time,
               exchange_close_time + 2, MinutesPerDay - 1}
DayStamps == {d * MinutesPerDay + m : d \in {0, 1}, m \in DayMinutes}

\* close_time_delta: none, two minutes, one minute short of 16 hours, one
\* minute more than 16 hours
Holdings == {0, 2, exchange_close_time - 1, exchange_close_time + 1}

DaySeries == UNION { LET idx == SortedSeq(S)
                     IN  {[i \in 1..Len(idx) |-> [time |-> idx[i], price |-> 1]]}
                   : S \in {S \in SUBSET DayStamps : Cardinality(S) <= MaxTicks} }

\* Backtester.__init__
DayInit ==
    /\ data \in DaySeries
    /\ initial_capital = StartCapital
    /\ commission = Commission
    /\ close_time_delta \in Holdings
    /\ Fresh

DaySpec == DayInit /\ [][Next]_vars

\* --------------------------------------------------------------------- C31
\* what the operation logged as entry i did to capital: the capital it left
\* minus the capital it found (the capital field of the entry before it)
CapitalDelta(i) ==
    trade_log[i].capital - (IF i = 1 THEN initial_capital ELSE trade_log[i - 1].capital)

\* C31: for every closed position (quantity 1) opened at price o and closed at
\* price c, what its open and its close together did to capital is
\* short_ratio * (c - o) - 2 * commission for a SHORT and (c - o) - 2 *
\* commission for a LONG; with nothing logged between the two this is capital
\* after the close minus capital before the open.  The recorded absolute
\* return is o - c for a SHORT (so capital net of commissions rises exactly
\* when the recorded return is negative) and c - o for a LONG (the return is
\* the capital change net of commissions).
C31_RoundTripCapitalChange ==
    \A k \in DOMAIN close_match :
        LET oi    == close_match[k].open_idx
            ci    == close_match[k].close_idx
            o     == trade_log[oi].price
            c     == trade_log[ci].price
            both  == CapitalDelta(oi) + CapitalDelta(ci)
            before == IF oi = 1 THEN initial_capital ELSE trade_log[oi - 1].capital
        IN  /\ trade_log[oi].action = "SELL" =>
                  /\ both = short_ratio * (c - o) - 2 * commission
                  /\ trade_returns[k] = o - c
                  /\ (both + 2 * commission > 0) <=> (c > o)
                  /\ (both + 2 * commission > 0) <=> (trade_returns[k] < 0)
            /\ trade_log[oi].action = "BUY" =>
                  /\ both = Unit * (c - o) - 2 * commission
                  /\ trade_returns[k] = c - o
                  /\ both + 2 * commission = Unit * trade_returns[k]
            /\ ci = oi + 1 => trade_log[ci].capital - before = both

\* a SHORT has been closed above its open price with nothing logged in
\* between: its recorded return is negative and capital net of commissions rose
C31_Witness ==
    \E k \in DOMAIN close_match :
        /\ trade_log[close_match[k].open_idx].action = "SELL"
        /\ close_match[k].close_idx = close_match[k].open_idx + 1
        /\ trade_log[close_match[k].close_idx].price
               > trade_log[close_match[k].open_idx].price
        /\ trade_returns[k] < 0
        /\ trade_log[close_match[k].close_idx].capital + 2 * commission
               > (IF close_match[k].open_idx = 1 THEN initial_capital
                  ELSE trade_log[close_match[k].open_idx - 1].capital)

\* --------------------------------------------------------------------- C32
\* the log entries written at the current tick
LoggedThisTick == {i \in DOMAIN trade_log : trade_log[i].time = current_index}

\* C32: a tick of run() acts in the order signal/open, scheduled close,
\* pending settlement.  When the strategy is asked nothing has been booked at
\* this tick, so the open is accepted exactly when the capital left by the
\* earlier ticks exceeds its cost, whatever a close due at this tick will
\* credit; the scheduled-close step and the settlement step only append CLOSE
\* entries at the tick's timestamp; and in the log an open at t stands before
\* every CLOSE at t, a scheduled close at t before a settlement close at t.
C32_OpenThenCloseThenSettle ==
    [][ /\ pc = "check" =>
              /\ pc' \in {"close", "next"}
              /\ LoggedThisTick = {}
              /\ Len(trade_log') > Len(trade_log)
                    <=> /\ Attempted # "NONE"
                        /\ capital - DebitFor(Attempted, PriceAt(current_index)) > 0
              /\ \A i \in (Len(trade_log) + 1)..Len(trade_log') :
                    IsOpenEntry(trade_log'[i]) /\ i = Len(trade_log) + 1
        /\ pc = "close" =>
              /\ pc' = "settle"
              /\ \A i \in LoggedThisTick : IsOpenEntry(trade_log[i])
              /\ \A i \in (Len(trade_log) + 1)..Len(trade_log') :
                    /\ trade_log'[i].action = "CLOSE"
                    /\ trade_log'[i].time = current_index
                    /\ i = Len(trade_log) + 1
        /\ pc = "settle" =>
              /\ pc' = "next"
              /\ \A i \in (Len(trade_log) + 1)..Len(trade_log') :
                    /\ trade_log'[i].action = "CLOSE"
                    /\ trade_log'[i].time = current_index
        /\ \A i, j \in DOMAIN trade_log' :
              (/\ trade_log'[i].time = trade_log'[j].time
               /\ IsOpenEntry(trade_log'[i])
               /\ trade_log'[j].action = "CLOSE") => i < j
        /\ \A k, m \in DOMAIN close_match' :
              (/\ trade_log'[close_match'[k].close_idx].time
                     = trade_log'[close_match'[m].close_idx].time
               /\ close_match'[k].path = "scheduled"
               /\ close_match'[m].path = "pending")
                  => close_match'[k].close_idx < close_match'[m].close_idx
      ]_vars

\* a BUY was refused at this tick, and the close due at the same tick has then
\* credited enough for the BUY to have been affordable had the close come first
C32_Witness ==
    /\ pc = "settle"
    /\ signal = "buy"
    /\ LoggedThisTick = {Len(trade_log)}
    /\ trade_log[Len(trade_log)].action = "CLOSE"
    /\ capital - DebitFor("BUY", PriceAt(current_index)) > 0

\* --------------------------------------------------------------------- C33
\* C33: with a holding duration shorter than 16 hours, every close time that
\* run() schedules lies on the calendar date of its open, at a time of day
\* strictly before 16:00, and a position opened at or after 16:00 minus the
\* holding duration (any time after 16:00 included) is never scheduled: it
\* goes to the pending trades.
C33_ScheduledCloseSameDayBeforeClose ==
    [][ (close_time_delta < exchange_close_time /\ pc = "check") =>
          /\ \A j \in (Len(position_close_time) + 1)..Len(position_close_time') :
                LET c == position_close_time'[j]
                IN  /\ c = current_index + close_time_delta
                    /\ Len(trade_log') = Len(trade_log) + 1
                    /\ trade_log'[Len(trade_log')].time = current_index
                    /\ c \div (24 * 60) = current_index \div (24 * 60)
                    /\ c % (24 * 60) < 16 * 60
          /\ current_index % (24 * 60) >= 16 * 60 - close_time_delta
                => /\ position_close_time' = position_close_time
                   /\ Len(trade_log') > Len(trade_log)
                          => Len(pending_trades') = Len(pending_trades) + 1
          /\ \A c \in Elems(position_close_time') :
                /\ c % (24 * 60) < 16 * 60
                /\ \E i \in DOMAIN trade_log' :
                      /\ IsOpenEntry(trade_log'[i])
                      /\ trade_log'[i].time + close_time_delta = c
                      /\ trade_log'[i].time \div (24 * 60) = c \div (24 * 60)
      ]_vars

\* a position opened at midnight is scheduled for 15:59 of the same day, and a
\* position opened after 16:00 is pending
C33_Witness ==
    /\ close_time_delta = exchange_close_time - 1
    /\ \E c \in Elems(position_close_time) :
          c % (24 * 60) = 16 * 60 - 1 /\ (c - close_time_delta) % (24 * 60) = 0
    /\ \E j \in DOMAIN pending_trades : pending_trades[j].time % (24 * 60) > 16 * 60

\* --------------------------------------------------------------------- C34
\* the timestamps the clock of run() has visited so far
Visited == IF current_index = None THEN {}
           ELSE {data[i].time : i \in {j \in DOMAIN data : data[j].time <= current_index}}

\* C34: in every state of run() the timestamps of the trade log are
\* non-decreasing in log order, and every logged timestamp is a timestamp of
\* the price series that the clock has already visited.
C34_LogTimesFollowTheClock ==
    /\ \A i, j \in DOMAIN trade_log : i < j => trade_log[i].time <= trade_log[j].time
    /\ \A i \in DOMAIN trade_log : trade_log[i].time \in Visited

\* the clock has moved past a tick that logged an open and a CLOSE, after an
\* earlier tick that logged an open
C34_Witness ==
    /\ Len(trade_log) >= 3
    /\ trade_log[1].time < trade_log[2].time
    /\ trade_log[2].time = trade_log[3].time
    /\ trade_log[3].action = "CLOSE"
    /\ current_index > trade_log[3].time
    /\ pc = "check"

\* --------------------------------------------------------------------- C35
\* C35: a constructed MomentumStrategy never answers true to both should_buy(t)
\* and should_sell(t) for the same timestamp t, asked or not, so check_strategy
\* never has to prefer the BUY over a simultaneous SELL.
C35_NeverBuyAndSellTogether ==
    strategy.state = "constructed" =>
        /\ signal # "both"
        /\ \A t \in 0..Len(data) : ~(should_buy(strategy, t) /\ should_sell(strategy, t))

\* the unit test's strategy answers sell on 2023-01-09 and would answer buy on
\* 2023-01-05
C35_Witness ==
    /\ strategy.state = "constructed"
    /\ Len(data) = 10
    /\ strategy.period.num = 3
    /\ strategy.threshold = [type |-> "float", num |-> 1, den |-> 100]
    /\ current_index = 8
    /\ signal = "sell"
    /\ should_buy(strategy, 4)
    /\ ~should_sell(strategy, 4)

====
